---- MODULE Spec2Model ----
(***************************************************************************)
(* A model of src/src/book.py: the format-dependent legality rules of      *)
(* Book (status, condition), the status mutator, the audiobook length      *)
(* formatter, the two Enum registries (BookCategory, DigitalFormat) and    *)
(* the value objects LibraryLocation and BookSeries with their JSON        *)
(* conversions.                                                            *)
(*                                                                         *)
(* Python values are modelled as follows.  A str is a sequence of          *)
(* one-character strings.  An Enum member of BookFormat, BookStatus or     *)
(* BookCondition is the string of its value or name.  None is the empty    *)
(* sequence and a present Optional value is a one-element sequence.  An    *)
(* exception is the string of its type and the start of its message;       *)
(* "none" means that the call returned.                                    *)
(***************************************************************************)
EXTENDS Integers, Sequences, FiniteSets, TLC

VARIABLES book, call, BookCategory, DigitalFormat, vcall

vars == <<book, call, BookCategory, DigitalFormat, vcall>>

Range(s) == {s[i] : i \in DOMAIN s}

None == <<>>

Some(x) == <<x>>

(***************************************************************************)
(* Bounds of the inputs.                                                   *)
(***************************************************************************)
\* the longest audiobook lengths have MaxHours hours: more than one day
MaxHours == 25

(***************************************************************************)
(* BookFormat, BookStatus, BookCondition.                                  *)
(***************************************************************************)
BookFormat == <<"Hardcover", "Paperback", "Audiobook", "E-book">>

BookStatus == <<"AVAILABLE", "CHECKED_OUT", "ON_HOLD", "IN_REPAIR">>

BookCondition == <<"NEW", "EXCELLENT", "GOOD", "FAIR", "POOR">>

is_physical_HardcoverOnly(book_format) == book_format \in {"Hardcover"}

is_physical(book_format) == book_format \in {"Hardcover", "Paperback"}

get_valid_statuses_AllFormats(book_format) == BookStatus

get_valid_statuses(book_format) ==
    IF is_physical(book_format) THEN BookStatus ELSE <<"AVAILABLE">>

get_valid_conditions_AlwaysNew(book_format) == <<"NEW">>

get_valid_conditions(book_format) ==
    IF is_physical(book_format) THEN BookCondition ELSE <<"NEW">>

(***************************************************************************)
(* datetime.timedelta: a duration is kept normalised as days and seconds   *)
(* with 0 <= seconds < 24*3600 (microseconds are not read by the code).    *)
(***************************************************************************)
timedelta(total_seconds) ==
    [days |-> total_seconds \div (24 * 3600),
     seconds |-> total_seconds % (24 * 3600)]

(***************************************************************************)
(* The format specification 02d: the decimal digits of a natural number,   *)
(* padded on the left with "0" to at least two characters.                 *)
(***************************************************************************)
Digit(d) == <<"0", "1", "2", "3", "4", "5", "6", "7", "8", "9">>[d + 1]

RECURSIVE NatToStr(_)
NatToStr(n) ==
    IF n < 10 THEN <<Digit(n)>> ELSE Append(NatToStr(n \div 10), Digit(n % 10))

Format02d(n) == IF n < 10 THEN <<"0">> \o NatToStr(n) ELSE NatToStr(n)

(***************************************************************************)
(* Book.  Of the fields only format, current_status, condition and         *)
(* audiobook_length are read by the methods; the others are plain data.    *)
(***************************************************************************)
NewBook(format, current_status, condition, audiobook_length) ==
    [format |-> format, current_status |-> current_status,
     condition |-> condition, audiobook_length |-> audiobook_length]

\* __post_init__: the exception it raises, or "none"
Book_post_init_NoCheck(self) == "none"

Book_post_init(self) ==
    LET valid_statuses == get_valid_statuses(self.format)
    IN  IF self.current_status \notin Range(valid_statuses)
        THEN "ValueError: Invalid status"
        ELSE "none"

\* set_status: the exception it raises and the object afterwards
set_status_AssignFirst(self, new_status) ==
    LET valid_statuses == get_valid_statuses(self.format)
    IN  [raised |-> IF new_status \notin Range(valid_statuses)
                    THEN "ValueError: Cannot set status" ELSE "none",
         self |-> [self EXCEPT !.current_status = new_status]]

set_status(self, new_status) ==
    LET valid_statuses == get_valid_statuses(self.format)
    IN  IF new_status \notin Range(valid_statuses)
        THEN [raised |-> "ValueError: Cannot set status", self |-> self]
        ELSE [raised |-> "none",
              self |-> [self EXCEPT !.current_status = new_status]]

format_audiobook_length(self) ==
    IF self.audiobook_length = None
    THEN <<"N", "/", "A">>
    ELSE LET length == self.audiobook_length[1]
             hours == length.seconds \div 3600
             remainder == length.seconds % 3600
             minutes == remainder \div 60
             seconds == remainder % 60
         IN  Format02d(hours) \o <<":">> \o Format02d(minutes) \o <<":">>
                 \o Format02d(seconds)

(***************************************************************************)
(* The inputs of the Book operations.                                      *)
(***************************************************************************)
HourInputs == {0, 1, 23, 24, MaxHours}

MinuteInputs == {0, 1, 59}

SecondInputs == {1, 59}

LengthInputs ==
    {None, Some(timedelta(0))} \cup
    {Some(timedelta(h * 3600 + m * 60 + s)) :
        h \in HourInputs, m \in MinuteInputs, s \in SecondInputs}

NoCall == [op |-> "none", format |-> "", status |-> "", raised |-> "none",
           ret |-> <<>>]

(***************************************************************************)
(* The operations on a Book.  call records the last operation: its name,   *)
(* the format and status it was given, what it raised and what it          *)
(* returned.                                                               *)
(***************************************************************************)
\* Book(...): the dataclass constructor assigns the fields, then __post_init__.
\* book is the one object followed: it is constructed once, and a
\* construction that raises leaves no object.
Create(format, current_status, condition, audiobook_length) ==
    LET self == NewBook(format, current_status, condition, audiobook_length)
        raised == Book_post_init(self)
    IN  /\ book = None
        /\ book' = IF raised = "none" THEN Some(self) ELSE book
        /\ call' = [op |-> "create", format |-> format,
                    status |-> current_status, raised |-> raised, ret |-> <<>>]
        /\ UNCHANGED <<BookCategory, DigitalFormat, vcall>>

SetStatus(new_status) ==
    /\ book # None
    /\ LET r == set_status(book[1], new_status)
       IN  /\ book' = Some(r.self)
           /\ call' = [op |-> "set_status", format |-> book[1].format,
                       status |-> new_status, raised |-> r.raised, ret |-> <<>>]
    /\ UNCHANGED <<BookCategory, DigitalFormat, vcall>>

FormatAudiobookLength ==
    /\ book # None
    /\ call' = [op |-> "format_audiobook_length", format |-> book[1].format,
                status |-> "", raised |-> "none",
                ret |-> format_audiobook_length(book[1])]
    /\ UNCHANGED <<book, BookCategory, DigitalFormat, vcall>>

GetValidStatuses(book_format) ==
    /\ call' = [op |-> "get_valid_statuses", format |-> book_format,
                status |-> "", raised |-> "none",
                ret |-> get_valid_statuses(book_format)]
    /\ UNCHANGED <<book, BookCategory, DigitalFormat, vcall>>

GetValidConditions(book_format) ==
    /\ call' = [op |-> "get_valid_conditions", format |-> book_format,
                status |-> "", raised |-> "none",
                ret |-> get_valid_conditions(book_format)]
    /\ UNCHANGED <<book, BookCategory, DigitalFormat, vcall>>

(***************************************************************************)
(* str: the characters the model's strings are made of, and str.lower().   *)
(***************************************************************************)
UpperCase == <<"A", "B", "C", "D", "E", "F", "G", "H", "I", "J", "K", "L", "M",
               "N", "O", "P", "Q", "R", "S", "T", "U", "V", "W", "X", "Y", "Z">>

LowerCase == <<"a", "b", "c", "d", "e", "f", "g", "h", "i", "j", "k", "l", "m",
               "n", "o", "p", "q", "r", "s", "t", "u", "v", "w", "x", "y", "z">>

IndexOf(seq, x) == CHOOSE i \in DOMAIN seq : seq[i] = x

LowerChar(c) ==
    IF c \in Range(UpperCase) THEN LowerCase[IndexOf(UpperCase, c)] ELSE c

UpperChar(c) ==
    IF c \in Range(LowerCase) THEN UpperCase[IndexOf(LowerCase, c)] ELSE c

lower(s) == [i \in DOMAIN s |-> LowerChar(s[i])]

upper(s) == [i \in DOMAIN s |-> UpperChar(s[i])]

(***************************************************************************)
(* Python values that cross the registries and the JSON conversions: a     *)
(* str, an int, or a member of an Enum class.  t is the type; s holds the  *)
(* characters of a str or the value of a member, n the number of an int.   *)
(***************************************************************************)
PyStr(s) == [t |-> "str", s |-> s, n |-> 0]

PyInt(n) == [t |-> "int", s |-> <<>>, n |-> n]

PyMember(cls, value) == [t |-> cls, s |-> value, n |-> 0]

(***************************************************************************)
(* The literal lists of the module.                                        *)
(***************************************************************************)
VALID_CATEGORIES == <<
    \* Action/Adventure fiction
    <<"A", "c", "t", "i", "o", "n", "/", "A", "d", "v", "e", "n", "t", "u",
      "r", "e", " ", "f", "i", "c", "t", "i", "o", "n">>,
    \* Children's fiction
    <<"C", "h", "i", "l", "d", "r", "e", "n", "'", "s", " ", "f", "i", "c",
      "t", "i", "o", "n">>,
    \* Classic fiction
    <<"C", "l", "a", "s", "s", "i", "c", " ", "f", "i", "c", "t", "i", "o",
      "n">>,
    \* Contemporary fiction
    <<"C", "o", "n", "t", "e", "m", "p", "o", "r", "a", "r", "y", " ", "f",
      "i", "c", "t", "i", "o", "n">>,
    \* Fantasy
    <<"F", "a", "n", "t", "a", "s", "y">>,
    \* Dark fantasy
    <<"D", "a", "r", "k", " ", "f", "a", "n", "t", "a", "s", "y">>,
    \* Fairy tales
    <<"F", "a", "i", "r", "y", " ", "t", "a", "l", "e", "s">>,
    \* Folktales
    <<"F", "o", "l", "k", "t", "a", "l", "e", "s">>,
    \* Heroic fantasy
    <<"H", "e", "r", "o", "i", "c", " ", "f", "a", "n", "t", "a", "s", "y">>,
    \* High fantasy
    <<"H", "i", "g", "h", " ", "f", "a", "n", "t", "a", "s", "y">>,
    \* Historical fantasy
    <<"H", "i", "s", "t", "o", "r", "i", "c", "a", "l", " ", "f", "a", "n",
      "t", "a", "s", "y">>,
    \* Low fantasy
    <<"L", "o", "w", " ", "f", "a", "n", "t", "a", "s", "y">>,
    \* Magical realism
    <<"M", "a", "g", "i", "c", "a", "l", " ", "r", "e", "a", "l", "i", "s",
      "m">>,
    \* Mythic fantasy
    <<"M", "y", "t", "h", "i", "c", " ", "f", "a", "n", "t", "a", "s", "y">>,
    \* Urban fantasy
    <<"U", "r", "b", "a", "n", " ", "f", "a", "n", "t", "a", "s", "y">>,
    \* Graphic novel
    <<"G", "r", "a", "p", "h", "i", "c", " ", "n", "o", "v", "e", "l">>,
    \* Historical fiction
    <<"H", "i", "s", "t", "o", "r", "i", "c", "a", "l", " ", "f", "i", "c",
      "t", "i", "o", "n">>,
    \* Horror
    <<"H", "o", "r", "r", "o", "r">>,
    \* Body horror
    <<"B", "o", "d", "y", " ", "h", "o", "r", "r", "o", "r">>,
    \* Comedy horror
    <<"C", "o", "m", "e", "d", "y", " ", "h", "o", "r", "r", "o", "r">>,
    \* Gothic horror
    <<"G", "o", "t", "h", "i", "c", " ", "h", "o", "r", "r", "o", "r">>,
    \* Lovecraftian/Cosmic horror
    <<"L", "o", "v", "e", "c", "r", "a", "f", "t", "i", "a", "n", "/", "C",
      "o", "s", "m", "i", "c", " ", "h", "o", "r", "r", "o", "r">>,
    \* Paranormal horror
    <<"P", "a", "r", "a", "n", "o", "r", "m", "a", "l", " ", "h", "o", "r",
      "r", "o", "r">>,
    \* Post-apocalyptic horror
    <<"P", "o", "s", "t", "-", "a", "p", "o", "c", "a", "l", "y", "p", "t",
      "i", "c", " ", "h", "o", "r", "r", "o", "r">>,
    \* Psychological horror
    <<"P", "s", "y", "c", "h", "o", "l", "o", "g", "i", "c", "a", "l", " ",
      "h", "o", "r", "r", "o", "r">>,
    \* Quiet horror
    <<"Q", "u", "i", "e", "t", " ", "h", "o", "r", "r", "o", "r">>,
    \* Slasher
    <<"S", "l", "a", "s", "h", "e", "r">>,
    \* LGBTQ+
    <<"L", "G", "B", "T", "Q", "+">>,
    \* Literary fiction
    <<"L", "i", "t", "e", "r", "a", "r", "y", " ", "f", "i", "c", "t", "i",
      "o", "n">>,
    \* Mystery
    <<"M", "y", "s", "t", "e", "r", "y">>,
    \* Caper
    <<"C", "a", "p", "e", "r">>,
    \* Cozy mystery
    <<"C", "o", "z", "y", " ", "m", "y", "s", "t", "e", "r", "y">>,
    \* Gumshoe/Detective mystery
    <<"G", "u", "m", "s", "h", "o", "e", "/", "D", "e", "t", "e", "c", "t",
      "i", "v", "e", " ", "m", "y", "s", "t", "e", "r", "y">>,
    \* Historical mystery
    <<"H", "i", "s", "t", "o", "r", "i", "c", "a", "l", " ", "m", "y", "s",
      "t", "e", "r", "y">>,
    \* Howdunnits
    <<"H", "o", "w", "d", "u", "n", "n", "i", "t", "s">>,
    \* Locked room mystery
    <<"L", "o", "c", "k", "e", "d", " ", "r", "o", "o", "m", " ", "m", "y",
      "s", "t", "e", "r", "y">>,
    \* Noir
    <<"N", "o", "i", "r">>,
    \* Procedural/Hard-boiled mystery
    <<"P", "r", "o", "c", "e", "d", "u", "r", "a", "l", "/", "H", "a", "r",
      "d", "-", "b", "o", "i", "l", "e", "d", " ", "m", "y", "s", "t", "e",
      "r", "y">>,
    \* Supernatural mystery
    <<"S", "u", "p", "e", "r", "n", "a", "t", "u", "r", "a", "l", " ", "m",
      "y", "s", "t", "e", "r", "y">>,
    \* New adult
    <<"N", "e", "w", " ", "a", "d", "u", "l", "t">>,
    \* Romance
    <<"R", "o", "m", "a", "n", "c", "e">>,
    \* Contemporary romance
    <<"C", "o", "n", "t", "e", "m", "p", "o", "r", "a", "r", "y", " ", "r",
      "o", "m", "a", "n", "c", "e">>,
    \* Dark romance
    <<"D", "a", "r", "k", " ", "r", "o", "m", "a", "n", "c", "e">>,
    \* Erotic romance
    <<"E", "r", "o", "t", "i", "c", " ", "r", "o", "m", "a", "n", "c", "e">>,
    \* Fantasy romance (Romantasy)
    <<"F", "a", "n", "t", "a", "s", "y", " ", "r", "o", "m", "a", "n", "c",
      "e", " ", "(", "R", "o", "m", "a", "n", "t", "a", "s", "y", ")">>,
    \* Gothic romance
    <<"G", "o", "t", "h", "i", "c", " ", "r", "o", "m", "a", "n", "c", "e">>,
    \* Historical romance
    <<"H", "i", "s", "t", "o", "r", "i", "c", "a", "l", " ", "r", "o", "m",
      "a", "n", "c", "e">>,
    \* Paranormal romance
    <<"P", "a", "r", "a", "n", "o", "r", "m", "a", "l", " ", "r", "o", "m",
      "a", "n", "c", "e">>,
    \* Regency
    <<"R", "e", "g", "e", "n", "c", "y">>,
    \* Romantic comedy
    <<"R", "o", "m", "a", "n", "t", "i", "c", " ", "c", "o", "m", "e", "d",
      "y">>,
    \* Romantic suspense
    <<"R", "o", "m", "a", "n", "t", "i", "c", " ", "s", "u", "s", "p", "e",
      "n", "s", "e">>,
    \* Sci-fi romance
    <<"S", "c", "i", "-", "f", "i", " ", "r", "o", "m", "a", "n", "c", "e">>,
    \* Satire
    <<"S", "a", "t", "i", "r", "e">>,
    \* Science fiction
    <<"S", "c", "i", "e", "n", "c", "e", " ", "f", "i", "c", "t", "i", "o",
      "n">>,
    \* Apocalyptic sci-fi
    <<"A", "p", "o", "c", "a", "l", "y", "p", "t", "i", "c", " ", "s", "c",
      "i", "-", "f", "i">>,
    \* Colonization sci-fi
    <<"C", "o", "l", "o", "n", "i", "z", "a", "t", "i", "o", "n", " ", "s",
      "c", "i", "-", "f", "i">>,
    \* Hard sci-fi
    <<"H", "a", "r", "d", " ", "s", "c", "i", "-", "f", "i">>,
    \* Military sci-fi
    <<"M", "i", "l", "i", "t", "a", "r", "y", " ", "s", "c", "i", "-", "f",
      "i">>,
    \* Mind uploading sci-fi
    <<"M", "i", "n", "d", " ", "u", "p", "l", "o", "a", "d", "i", "n", "g",
      " ", "s", "c", "i", "-", "f", "i">>,
    \* Parallel world sci-fi
    <<"P", "a", "r", "a", "l", "l", "e", "l", " ", "w", "o", "r", "l", "d",
      " ", "s", "c", "i", "-", "f", "i">>,
    \* Soft sci-fi
    <<"S", "o", "f", "t", " ", "s", "c", "i", "-", "f", "i">>,
    \* Space opera
    <<"S", "p", "a", "c", "e", " ", "o", "p", "e", "r", "a">>,
    \* Space western
    <<"S", "p", "a", "c", "e", " ", "w", "e", "s", "t", "e", "r", "n">>,
    \* Steampunk
    <<"S", "t", "e", "a", "m", "p", "u", "n", "k">>,
    \* Short story
    <<"S", "h", "o", "r", "t", " ", "s", "t", "o", "r", "y">>,
    \* Thriller
    <<"T", "h", "r", "i", "l", "l", "e", "r">>,
    \* Action thriller
    <<"A", "c", "t", "i", "o", "n", " ", "t", "h", "r", "i", "l", "l", "e",
      "r">>,
    \* Conspiracy thriller
    <<"C", "o", "n", "s", "p", "i", "r", "a", "c", "y", " ", "t", "h", "r",
      "i", "l", "l", "e", "r">>,
    \* Disaster thriller
    <<"D", "i", "s", "a", "s", "t", "e", "r", " ", "t", "h", "r", "i", "l",
      "l", "e", "r">>,
    \* Espionage thriller
    <<"E", "s", "p", "i", "o", "n", "a", "g", "e", " ", "t", "h", "r", "i",
      "l", "l", "e", "r">>,
    \* Forensic thriller
    <<"F", "o", "r", "e", "n", "s", "i", "c", " ", "t", "h", "r", "i", "l",
      "l", "e", "r">>,
    \* Historical thriller
    <<"H", "i", "s", "t", "o", "r", "i", "c", "a", "l", " ", "t", "h", "r",
      "i", "l", "l", "e", "r">>,
    \* Legal thriller
    <<"L", "e", "g", "a", "l", " ", "t", "h", "r", "i", "l", "l", "e", "r">>,
    \* Paranormal thriller
    <<"P", "a", "r", "a", "n", "o", "r", "m", "a", "l", " ", "t", "h", "r",
      "i", "l", "l", "e", "r">>,
    \* Psychological thriller
    <<"P", "s", "y", "c", "h", "o", "l", "o", "g", "i", "c", "a", "l", " ",
      "t", "h", "r", "i", "l", "l", "e", "r">>,
    \* Religious thriller
    <<"R", "e", "l", "i", "g", "i", "o", "u", "s", " ", "t", "h", "r", "i",
      "l", "l", "e", "r">>,
    \* Western
    <<"W", "e", "s", "t", "e", "r", "n">>,
    \* Women's fiction
    <<"W", "o", "m", "e", "n", "'", "s", " ", "f", "i", "c", "t", "i", "o",
      "n">>,
    \* Young adult
    <<"Y", "o", "u", "n", "g", " ", "a", "d", "u", "l", "t">>,
    \* Art & photography
    <<"A", "r", "t", " ", "&", " ", "p", "h", "o", "t", "o", "g", "r", "a",
      "p", "h", "y">>,
    \* Autobiography/Memoir
    <<"A", "u", "t", "o", "b", "i", "o", "g", "r", "a", "p", "h", "y", "/",
      "M", "e", "m", "o", "i", "r">>,
    \* Biography
    <<"B", "i", "o", "g", "r", "a", "p", "h", "y">>,
    \* Essays
    <<"E", "s", "s", "a", "y", "s">>,
    \* Food & drink
    <<"F", "o", "o", "d", " ", "&", " ", "d", "r", "i", "n", "k">>,
    \* History
    <<"H", "i", "s", "t", "o", "r", "y">>,
    \* How-To/Guides
    <<"H", "o", "w", "-", "T", "o", "/", "G", "u", "i", "d", "e", "s">>,
    \* Humanities & social sciences
    <<"H", "u", "m", "a", "n", "i", "t", "i", "e", "s", " ", "&", " ", "s",
      "o", "c", "i", "a", "l", " ", "s", "c", "i", "e", "n", "c", "e", "s">>,
    \* Humor
    <<"H", "u", "m", "o", "r">>,
    \* Parenting
    <<"P", "a", "r", "e", "n", "t", "i", "n", "g">>,
    \* Philosophy
    <<"P", "h", "i", "l", "o", "s", "o", "p", "h", "y">>,
    \* Religion & spirituality
    <<"R", "e", "l", "i", "g", "i", "o", "n", " ", "&", " ", "s", "p", "i",
      "r", "i", "t", "u", "a", "l", "i", "t", "y">>,
    \* Science & technology
    <<"S", "c", "i", "e", "n", "c", "e", " ", "&", " ", "t", "e", "c", "h",
      "n", "o", "l", "o", "g", "y">>,
    \* Self-help
    <<"S", "e", "l", "f", "-", "h", "e", "l", "p">>,
    \* Travel
    <<"T", "r", "a", "v", "e", "l">>,
    \* True crime
    <<"T", "r", "u", "e", " ", "c", "r", "i", "m", "e">>
    >>

EBOOK_FORMATS == <<
    \* EPUB
    <<"E", "P", "U", "B">>,
    \* PDF
    <<"P", "D", "F">>,
    \* MOBI
    <<"M", "O", "B", "I">>,
    \* AZW
    <<"A", "Z", "W">>,
    \* AZW3
    <<"A", "Z", "W", "3">>,
    \* KFX
    <<"K", "F", "X">>,
    \* IBA
    <<"I", "B", "A">>,
    \* FB2
    <<"F", "B", "2">>,
    \* LIT
    <<"L", "I", "T">>,
    \* PRC
    <<"P", "R", "C">>,
    \* TXT
    <<"T", "X", "T">>,
    \* RTF
    <<"R", "T", "F">>,
    \* HTML
    <<"H", "T", "M", "L">>
    >>

AUDIOBOOK_FORMATS == <<
    \* MP3
    <<"M", "P", "3">>,
    \* AAC
    <<"A", "A", "C">>,
    \* M4A
    <<"M", "4", "A">>,
    \* M4B
    <<"M", "4", "B">>,
    \* WMA
    <<"W", "M", "A">>,
    \* OGG
    <<"O", "G", "G">>,
    \* FLAC
    <<"F", "L", "A", "C">>,
    \* WAV
    <<"W", "A", "V">>,
    \* AA
    <<"A", "A">>,
    \* AAX
    <<"A", "A", "X">>
    >>

(***************************************************************************)
(* Category(Enum) and its two subclasses.  Neither class body assigns a    *)
(* member: __new__ is kept by the metaclass for building the members of    *)
(* the class body, and a call cls(value) on the finished class is Enum's   *)
(* lookup by value.  A class is modelled by its name and the values of     *)
(* its members; the name a module-level assignment rebinds is modelled by  *)
(* a variable holding either the class or the dict assigned to it.         *)
(***************************************************************************)
EnumClass(name, members) == [kind |-> "enum", name |-> name, members |-> members]

DictOf(name, keys) == [kind |-> "dict", name |-> name, members |-> keys]

\* Category._missing_: the first member whose value equals value ignoring case
Category_missing(cls, value) ==
    IF value.t = "str"
       /\ \E i \in DOMAIN cls.members : lower(cls.members[i]) = lower(value.s)
    THEN LET i == CHOOSE i \in DOMAIN cls.members :
                     /\ lower(cls.members[i]) = lower(value.s)
                     /\ \A j \in 1..(i - 1) :
                            lower(cls.members[j]) # lower(value.s)
         IN  Some(PyMember(cls.name, cls.members[i]))
    ELSE None

\* cls(value): Enum.__new__, which falls back on cls._missing_(value)
EnumCall(cls, value) ==
    IF value.t = cls.name
    THEN [raised |-> "none", ret |-> Some(value)]
    ELSE IF value.t = "str" /\ value.s \in Range(cls.members)
    THEN [raised |-> "none", ret |-> Some(PyMember(cls.name, value.s))]
    ELSE IF cls.members = <<>>
    THEN [raised |-> "TypeError: has no members defined", ret |-> None]
    ELSE LET result == Category_missing(cls, value)
         IN  IF result # None
             THEN [raised |-> "none", ret |-> result]
             ELSE [raised |-> "ValueError: is not a valid", ret |-> None]

\* {label: cls(label) for label in labels}: the first call that raises ends it
DictComprehension(cls, labels) ==
    LET made == [i \in DOMAIN labels |-> EnumCall(cls, PyStr(labels[i]))]
    IN  IF \E i \in DOMAIN labels : made[i].raised # "none"
        THEN LET i == CHOOSE i \in DOMAIN labels :
                         /\ made[i].raised # "none"
                         /\ \A j \in 1..(i - 1) : made[j].raised = "none"
             IN  [raised |-> made[i].raised, ret |-> None]
        ELSE [raised |-> "none", ret |-> Some(DictOf(cls.name, labels))]

create_categories(cls) == DictComprehension(cls, VALID_CATEGORIES)

create_formats(cls) == DictComprehension(cls, EBOOK_FORMATS \o AUDIOBOOK_FORMATS)

\* the classes as their class statements leave them
BookCategoryClass == EnumClass("BookCategory", <<>>)

DigitalFormatClass == EnumClass("DigitalFormat", <<>>)

\* name(candidate), for the object the module-level name is bound to
Resolve(binding, candidate) ==
    IF binding.kind = "enum"
    THEN EnumCall(binding, candidate)
    ELSE [raised |-> "TypeError: 'dict' object is not callable", ret |-> None]

\* isinstance(value, name), for the object the module-level name is bound to
IsInstance(value, binding) ==
    IF binding.kind = "enum"
    THEN [raised |-> "none",
          ret |-> value.t = binding.name /\ value.s \in Range(binding.members)]
    ELSE [raised |-> "TypeError: isinstance() arg 2 must be a type", ret |-> FALSE]

(***************************************************************************)
(* json.dumps and json.loads on a dict of str keys whose values are str    *)
(* or int.  A dict is the sequence of its items in insertion order.  The   *)
(* texts given to json_loads are JSON objects with at least one item and   *)
(* only the escapes \" and \\ .                                            *)
(***************************************************************************)
IntToStr(n) == IF n < 0 THEN <<"-">> \o NatToStr(-n) ELSE NatToStr(n)

RECURSIVE JsonEscape(_)
JsonEscape(s) ==
    IF s = <<>> THEN <<>>
    ELSE (IF Head(s) \in {"\"", "\\"} THEN <<"\\", Head(s)>> ELSE <<Head(s)>>)
             \o JsonEscape(Tail(s))

JsonEncodeStr(s) == <<"\"">> \o JsonEscape(s) \o <<"\"">>

JsonEncodeValue(value) ==
    IF value.t = "str" THEN JsonEncodeStr(value.s) ELSE IntToStr(value.n)

RECURSIVE JsonItems(_)
JsonItems(d) ==
    IF d = <<>> THEN <<>>
    ELSE JsonEncodeStr(Head(d).k) \o <<":", " ">> \o JsonEncodeValue(Head(d).v)
             \o (IF Tail(d) = <<>> THEN <<>> ELSE <<",", " ">>)
             \o JsonItems(Tail(d))

json_dumps(d) ==
    IF \E i \in DOMAIN d : d[i].v.t \notin {"str", "int"}
    THEN [raised |-> "TypeError: is not JSON serializable", text |-> <<>>]
    ELSE [raised |-> "none", text |-> <<"{">> \o JsonItems(d) \o <<"}">>]

RECURSIVE SkipWhitespace(_, _)
SkipWhitespace(text, i) ==
    IF i <= Len(text) /\ text[i] = " " THEN SkipWhitespace(text, i + 1) ELSE i

\* the string whose opening quote is before position i
RECURSIVE ScanString(_, _, _)
ScanString(text, i, acc) ==
    IF text[i] = "\"" THEN [v |-> acc, next |-> i + 1]
    ELSE IF text[i] = "\\" THEN ScanString(text, i + 2, Append(acc, text[i + 1]))
    ELSE ScanString(text, i + 1, Append(acc, text[i]))

IsDigit(c) == \E d \in 0..9 : Digit(d) = c

DigitValue(c) == CHOOSE d \in 0..9 : Digit(d) = c

RECURSIVE ScanDigits(_, _, _)
ScanDigits(text, i, acc) ==
    IF i <= Len(text) /\ IsDigit(text[i])
    THEN ScanDigits(text, i + 1, acc * 10 + DigitValue(text[i]))
    ELSE [v |-> acc, next |-> i]

ScanValue(text, i) ==
    IF text[i] = "\""
    THEN LET r == ScanString(text, i + 1, <<>>)
         IN  [v |-> PyStr(r.v), next |-> r.next]
    ELSE IF text[i] = "-"
    THEN LET r == ScanDigits(text, i + 1, 0)
         IN  [v |-> PyInt(-r.v), next |-> r.next]
    ELSE LET r == ScanDigits(text, i, 0)
         IN  [v |-> PyInt(r.v), next |-> r.next]

RECURSIVE ScanItems(_, _, _)
ScanItems(text, i, acc) ==
    LET key == ScanString(text, i + 1, <<>>)
        colon == SkipWhitespace(text, key.next)
        value == ScanValue(text, SkipWhitespace(text, colon + 1))
        after == SkipWhitespace(text, value.next)
        items == Append(acc, [k |-> key.v, v |-> value.v])
    IN  IF text[after] = ","
        THEN ScanItems(text, SkipWhitespace(text, after + 1), items)
        ELSE items

json_loads(text) == ScanItems(text, SkipWhitespace(text, 2), <<>>)

HasKey(d, key) == \E i \in DOMAIN d : d[i].k = key

\* d[key]: a later item of the same key replaces an earlier one
DictGet(d, key) ==
    d[CHOOSE i \in DOMAIN d :
          d[i].k = key /\ \A j \in (i + 1)..Len(d) : d[j].k # key].v

(***************************************************************************)
(* LibraryLocation.                                                        *)
(***************************************************************************)
KeyCategory == <<"c", "a", "t", "e", "g", "o", "r", "y">>

KeyShelf == <<"s", "h", "e", "l", "f">>

\* LibraryLocation(category, shelf): the fields are set, then __post_init__
LibraryLocation_post_init(self) ==
    LET isCategory == IsInstance(self.category, BookCategory)
    IN  IF isCategory.raised # "none" THEN isCategory.raised
        ELSE IF ~isCategory.ret THEN "ValueError: Invalid category"
        ELSE IF self.shelf.t # "int" \/ self.shelf.n < 1
        THEN "ValueError: Invalid shelf number"
        ELSE "none"

LibraryLocation(category, shelf) ==
    LET self == [category |-> category, shelf |-> shelf]
        raised == LibraryLocation_post_init(self)
    IN  [raised |-> raised, ret |-> IF raised = "none" THEN Some(self) ELSE None]

\* asdict(self)
LibraryLocation_dict_representation(self) ==
    <<[k |-> KeyCategory, v |-> self.category], [k |-> KeyShelf, v |-> self.shelf]>>

LibraryLocation_json_representation(self) ==
    json_dumps(LibraryLocation_dict_representation(self))

LibraryLocation_from_dict(data) ==
    IF ~HasKey(data, KeyCategory) \/ ~HasKey(data, KeyShelf)
    THEN [raised |-> "KeyError", ret |-> None]
    ELSE LibraryLocation(DictGet(data, KeyCategory), DictGet(data, KeyShelf))

LibraryLocation_from_json(json_str) ==
    LibraryLocation_from_dict(json_loads(json_str))

(***************************************************************************)
(* BookSeries.                                                             *)
(***************************************************************************)
KeySeries == <<"s", "e", "r", "i", "e", "s">>

KeyNumber == <<"n", "u", "m", "b", "e", "r">>

BookSeries(series, number) == [series |-> series, number |-> number]

BookSeries_dict_representation(self) ==
    <<[k |-> KeySeries, v |-> self.series], [k |-> KeyNumber, v |-> self.number]>>

BookSeries_json_representation(self) ==
    json_dumps(BookSeries_dict_representation(self))

BookSeries_from_dict(data) ==
    IF ~HasKey(data, KeySeries) \/ ~HasKey(data, KeyNumber)
    THEN [raised |-> "KeyError", ret |-> None]
    ELSE [raised |-> "none",
          ret |-> Some(BookSeries(DictGet(data, KeySeries),
                                  DictGet(data, KeyNumber)))]

BookSeries_from_json(json_str) == BookSeries_from_dict(json_loads(json_str))

(***************************************************************************)
(* The inputs of the registry and value-object operations.                 *)
(***************************************************************************)
\* the first MaxSample labels of each list are tried in three casings
MaxSample == 5

\* a series name has at most MaxSeriesLen characters
MaxSeriesLen == 2

\* a series number lies between -MaxNumber and MaxNumber
MaxNumber == 12

\* a shelf lies in -1..MaxShelf
MaxShelf == 3

Casings(labels) == labels \cup {lower(l) : l \in labels} \cup {upper(l) : l \in labels}

CategoryLabels == {VALID_CATEGORIES[i] : i \in 1..MaxSample}

FormatLabels ==
    {EBOOK_FORMATS[i] : i \in 1..MaxSample}
        \cup {AUDIOBOOK_FORMATS[i] : i \in 1..MaxSample}

NotACategory ==
    {<<>>, <<"F", "a", "n", "t", "a", "s">>, <<"E", "P", "U", "B">>}

NotAFormat ==
    {<<>>, <<"M", "P", "5">>, <<"F", "a", "n", "t", "a", "s", "y">>}

CategoryCandidates == {PyStr(s) : s \in Casings(CategoryLabels) \cup NotACategory}

FormatCandidates == {PyStr(s) : s \in Casings(FormatLabels) \cup NotAFormat}

MembersOf(binding) ==
    IF binding.kind = "enum"
    THEN {PyMember(binding.name, m) : m \in Range(binding.members)}
    ELSE {}

\* what a caller can pass as category: a str, or a member of BookCategory
CategoryInputs ==
    {PyStr(s) : s \in {VALID_CATEGORIES[5], lower(VALID_CATEGORIES[5]),
                       VALID_CATEGORIES[1], <<"B", "o", "g", "u", "s">>}}
        \cup MembersOf(BookCategory)

ShelfInputs == {PyInt(n) : n \in (-1)..MaxShelf} \cup {PyStr(<<"2">>)}

SeriesChars == {"D", " ", "\"", "\\"}

SeriesInputs ==
    {PyStr(s) : s \in UNION {[1..n -> SeriesChars] : n \in 0..MaxSeriesLen}}

NumberInputs == {PyInt(n) : n \in {-MaxNumber, -1, 0, 7, MaxNumber}}

NoValueCall == [op |-> "none", a |-> PyStr(<<>>), b |-> PyInt(0),
                raised |-> "none", text |-> <<>>, ret |-> None]

(***************************************************************************)
(* The registry and value-object operations.  vcall records the last one:  *)
(* its name, its arguments a and b, what it raised, the JSON text it       *)
(* produced or read, and what it returned.                                 *)
(***************************************************************************)
\* BookCategory = BookCategory.create_categories()
BindBookCategory ==
    /\ BookCategory.kind = "enum"
    /\ LET r == create_categories(BookCategory)
       IN  /\ BookCategory' = IF r.raised = "none" THEN r.ret[1] ELSE BookCategory
           /\ vcall' = [NoValueCall EXCEPT !.op = "create_categories",
                                           !.raised = r.raised]
    /\ UNCHANGED <<book, call, DigitalFormat>>

\* DigitalFormat = DigitalFormat.create_formats()
BindDigitalFormat ==
    /\ DigitalFormat.kind = "enum"
    /\ LET r == create_formats(DigitalFormat)
       IN  /\ DigitalFormat' = IF r.raised = "none" THEN r.ret[1] ELSE DigitalFormat
           /\ vcall' = [NoValueCall EXCEPT !.op = "create_formats",
                                           !.raised = r.raised]
    /\ UNCHANGED <<book, call, BookCategory>>

ResolveCategory(candidate) ==
    /\ LET r == Resolve(BookCategory, candidate)
       IN  vcall' = [NoValueCall EXCEPT !.op = "BookCategory", !.a = candidate,
                                        !.raised = r.raised, !.ret = r.ret]
    /\ UNCHANGED <<book, call, BookCategory, DigitalFormat>>

ResolveDigitalFormat(candidate) ==
    /\ LET r == Resolve(DigitalFormat, candidate)
       IN  vcall' = [NoValueCall EXCEPT !.op = "DigitalFormat", !.a = candidate,
                                        !.raised = r.raised, !.ret = r.ret]
    /\ UNCHANGED <<book, call, BookCategory, DigitalFormat>>

CreateLocation(category, shelf) ==
    /\ LET r == LibraryLocation(category, shelf)
       IN  vcall' = [NoValueCall EXCEPT !.op = "LibraryLocation", !.a = category,
                                        !.b = shelf, !.raised = r.raised,
                                        !.ret = r.ret]
    /\ UNCHANGED <<book, call, BookCategory, DigitalFormat>>

\* from_json on the text of an object with a str category and the given shelf
LocationFromJson(category, shelf) ==
    /\ category.t = "str"
    /\ LET text == json_dumps(<<[k |-> KeyCategory, v |-> category],
                                [k |-> KeyShelf, v |-> shelf]>>).text
           r == LibraryLocation_from_json(text)
       IN  vcall' = [NoValueCall EXCEPT !.op = "LibraryLocation.from_json",
                                        !.a = category, !.b = shelf,
                                        !.raised = r.raised, !.text = text,
                                        !.ret = r.ret]
    /\ UNCHANGED <<book, call, BookCategory, DigitalFormat>>

\* LibraryLocation.from_json(LibraryLocation(category, shelf).json_representation)
LocationRoundTrip(category, shelf) ==
    /\ LET made == LibraryLocation(category, shelf)
           dumped == IF made.raised = "none"
                     THEN LibraryLocation_json_representation(made.ret[1])
                     ELSE [raised |-> made.raised, text |-> <<>>]
           back == IF dumped.raised = "none"
                   THEN LibraryLocation_from_json(dumped.text)
                   ELSE [raised |-> dumped.raised, ret |-> None]
       IN  vcall' = [NoValueCall EXCEPT !.op = "LibraryLocation round trip",
                                        !.a = category, !.b = shelf,
                                        !.raised = back.raised,
                                        !.text = dumped.text, !.ret = back.ret]
    /\ UNCHANGED <<book, call, BookCategory, DigitalFormat>>

\* BookSeries.from_json(BookSeries(series, number).json_representation)
SeriesRoundTrip(series, number) ==
    /\ LET made == BookSeries(series, number)
           dumped == BookSeries_json_representation(made)
           back == IF dumped.raised = "none"
                   THEN BookSeries_from_json(dumped.text)
                   ELSE [raised |-> dumped.raised, ret |-> None]
       IN  vcall' = [NoValueCall EXCEPT !.op = "BookSeries round trip",
                                        !.a = series, !.b = number,
                                        !.raised = back.raised,
                                        !.text = dumped.text, !.ret = back.ret]
    /\ UNCHANGED <<book, call, BookCategory, DigitalFormat>>

(***************************************************************************)
(* The specifications.  Spec runs the Book and the format policy;          *)
(* SpecValues runs the registries and the value objects.                   *)
(***************************************************************************)
Init ==
    /\ book = None
    /\ call = NoCall
    /\ BookCategory = BookCategoryClass
    /\ DigitalFormat = DigitalFormatClass
    /\ vcall = NoValueCall

Next ==
    \/ \E format \in Range(BookFormat), current_status \in Range(BookStatus),
          condition \in Range(BookCondition), audiobook_length \in LengthInputs :
           Create(format, current_status, condition, audiobook_length)
    \/ \E new_status \in Range(BookStatus) : SetStatus(new_status)
    \/ FormatAudiobookLength
    \/ \E book_format \in Range(BookFormat) : GetValidStatuses(book_format)
    \/ \E book_format \in Range(BookFormat) : GetValidConditions(book_format)

Spec == Init /\ [][Next]_vars

NextValues ==
    \/ BindBookCategory
    \/ BindDigitalFormat
    \/ \E candidate \in CategoryCandidates : ResolveCategory(candidate)
    \/ \E candidate \in FormatCandidates : ResolveDigitalFormat(candidate)
    \/ \E category \in CategoryInputs, shelf \in ShelfInputs :
           CreateLocation(category, shelf)
    \/ \E category \in CategoryInputs, shelf \in ShelfInputs :
           LocationFromJson(category, shelf)
    \/ \E category \in CategoryInputs, shelf \in ShelfInputs :
           LocationRoundTrip(category, shelf)
    \/ \E series \in SeriesInputs, number \in NumberInputs :
           SeriesRoundTrip(series, number)

SpecValues == Init /\ [][NextValues]_vars

(***************************************************************************)
(* The legal sets and the rendering as the specification states them.      *)
(***************************************************************************)
PhysicalBookFormats == {"Hardcover", "Paperback"}

DigitalBookFormats == {"Audiobook", "E-book"}

LegalStatuses(format) ==
    IF format \in PhysicalBookFormats
    THEN {"AVAILABLE", "CHECKED_OUT", "ON_HOLD", "IN_REPAIR"}
    ELSE {"AVAILABLE"}

LegalConditions(format) ==
    IF format \in PhysicalBookFormats
    THEN {"NEW", "EXCELLENT", "GOOD", "FAIR", "POOR"}
    ELSE {"NEW"}

\* HH:MM:SS of a whole number of seconds, the hours not wrapped
RenderTotalSeconds(total) ==
    Format02d(total \div 3600) \o <<":">> \o Format02d((total % 3600) \div 60)
        \o <<":">> \o Format02d(total % 60)

TotalSeconds(length) == length.days * 24 * 3600 + length.seconds

IsLabelIgnoringCase(labels, s) == \E i \in DOMAIN labels : lower(labels[i]) = lower(s)

CanonicalLabel(labels, s) ==
    labels[CHOOSE i \in DOMAIN labels : lower(labels[i]) = lower(s)]

IsPositiveInt(value) == value.t = "int" /\ value.n >= 1

C3_ConditionLegalForFormat ==
    book # None => book[1].condition \in LegalConditions(book[1].format)

C6_FormatPolicy ==
    /\ call.op = "get_valid_statuses" =>
           /\ call.raised = "none"
           /\ Range(call.ret) = LegalStatuses(call.format)
           /\ Len(call.ret) = Cardinality(LegalStatuses(call.format))
    /\ call.op = "get_valid_conditions" =>
           /\ call.raised = "none"
           /\ Range(call.ret) = LegalConditions(call.format)
           /\ Len(call.ret) = Cardinality(LegalConditions(call.format))

\* the conditions of a Paperback have just been asked for
C6_Witness ==
    /\ call.op = "get_valid_conditions"
    /\ call.format = "Paperback"
    /\ Len(call.ret) = 5

(***************************************************************************)
(* C7.  For every LibraryLocation of a valid category and a shelf of at    *)
(* least 1, and for every BookSeries, the JSON text is produced and        *)
(* from_json of it returns a value equal to the original.                  *)
(***************************************************************************)
C7_RoundTrip ==
    /\ (/\ vcall.op = "LibraryLocation round trip"
        /\ \/ vcall.a.t = "BookCategory"
           \/ vcall.a.t = "str" /\ IsLabelIgnoringCase(VALID_CATEGORIES, vcall.a.s)
        /\ IsPositiveInt(vcall.b))
       => /\ vcall.raised = "none"
          /\ vcall.ret # None
          /\ vcall.ret[1].shelf = vcall.b
          /\ vcall.ret[1].category.s = CanonicalLabel(VALID_CATEGORIES, vcall.a.s)
    /\ vcall.op = "BookSeries round trip"
       => /\ vcall.raised = "none"
          /\ vcall.ret = Some(BookSeries(vcall.a, vcall.b))

(***************************************************************************)
(* C8.  A LibraryLocation that exists has a shelf of at least 1 and a      *)
(* valid category, whether the constructor or from_json built it: a shelf  *)
(* that is not a positive integer is refused with the invalid-shelf        *)
(* error, a category that does not resolve with the invalid-category       *)
(* error.                                                                  *)
(***************************************************************************)
C8_LocationValidated ==
    vcall.op \in {"LibraryLocation", "LibraryLocation.from_json"} =>
        LET categoryOk ==
                \/ vcall.a.t = "BookCategory"
                \/ vcall.a.t = "str"
                   /\ IsLabelIgnoringCase(VALID_CATEGORIES, vcall.a.s)
            shelfOk == IsPositiveInt(vcall.b)
        IN  /\ vcall.ret # None => categoryOk /\ shelfOk
            /\ (~shelfOk /\ categoryOk) =>
                   vcall.raised = "ValueError: Invalid shelf number"
            /\ (shelfOk /\ ~categoryOk) =>
                   vcall.raised = "ValueError: Invalid category"
            /\ (~shelfOk /\ ~categoryOk) =>
                   vcall.raised \in {"ValueError: Invalid shelf number",
                                     "ValueError: Invalid category"}

(***************************************************************************)
(* C9.  Resolving a string in a registry returns the canonical label when  *)
(* the string equals one of the registry's labels ignoring case, and       *)
(* raises for every other string; this holds for the categories and for    *)
(* the 13 e-book and 10 audiobook formats.  Once built, the registries do  *)
(* not change.                                                             *)
(***************************************************************************)
C9_RegistryResolution ==
    /\ vcall.op = "BookCategory" =>
           IF IsLabelIgnoringCase(VALID_CATEGORIES, vcall.a.s)
           THEN /\ vcall.raised = "none"
                /\ vcall.ret # None
                /\ vcall.ret[1].s = CanonicalLabel(VALID_CATEGORIES, vcall.a.s)
           ELSE vcall.raised # "none"
    /\ vcall.op = "DigitalFormat" =>
           IF IsLabelIgnoringCase(EBOOK_FORMATS \o AUDIOBOOK_FORMATS, vcall.a.s)
           THEN /\ vcall.raised = "none"
                /\ vcall.ret # None
                /\ vcall.ret[1].s =
                       CanonicalLabel(EBOOK_FORMATS \o AUDIOBOOK_FORMATS, vcall.a.s)
           ELSE vcall.raised # "none"
    /\ Len(EBOOK_FORMATS) = 13
    /\ Len(AUDIOBOOK_FORMATS) = 10

(***************************************************************************)
(* C10.  format_audiobook_length returns N/A when no length is set, and    *)
(* otherwise HH:MM:SS of the total number of whole seconds of the length,  *)
(* each part padded to two digits and the hours not wrapped at 24.         *)
(***************************************************************************)
C10_LengthRendered ==
    (call.op = "format_audiobook_length" /\ book # None) =>
        call.ret = IF book[1].audiobook_length = None
                   THEN <<"N", "/", "A">>
                   ELSE RenderTotalSeconds(TotalSeconds(book[1].audiobook_length[1]))

====
